---------------------------- MODULE Spec2Model ----------------------------
(***************************************************************************)
(* Model of ios/testmanagerd/xcuitestrunner_12.go:                         *)
(*   RunXUITestWithBundleIdsXcode12Ctx  (the session orchestrator)         *)
(*   startTestRunner12                  (environment merge + StartProcess) *)
(*                                                                         *)
(* One run of RunXUITestWithBundleIdsXcode12Ctx is modelled per behaviour. *)
(* pc is the position of the orchestrator goroutine in the function body,  *)
(* every external call (usbmuxd connection, DTX invocation, process        *)
(* control) chooses its outcome nondeterministically.  Text is modelled as *)
(* a sequence of atoms; the only atom the code distinguishes is "=".       *)
(***************************************************************************)
EXTENDS Integers, Sequences, FiniteSets, TLC

(***************************************************************************)
(* Bounds of the model.                                                    *)
(***************************************************************************)
\* longest caller-supplied env slice (wdaenv)
MaxEnv == 2

\* pids StartProcess can hand out are 1..MaxPid
MaxPid == 2

Pids == 1..MaxPid

\* UUIDs setupXcuiTest can generate
SessionIds == {"uuid1", "uuid2"}

\* entries a caller may put into env []string
EnvEntries ==
    { <<"A", "=", "1">>,
      <<"A", "=", "2">>,
      <<"A", "=", "1", "=", "2">>,
      <<"A">>,
      <<"XCTestSessionIdentifier", "=", "mine">> }

RECURSIVE SeqsUpTo(_, _)
SeqsUpTo(S, n) ==
    IF n = 0 THEN {<<>>}
    ELSE LET shorter == SeqsUpTo(S, n - 1)
         IN  shorter \cup {Append(s, e) : s \in shorter, e \in S}

EnvInputs == SeqsUpTo(EnvEntries, MaxEnv)

(***************************************************************************)
(* strings.Split(s, "=") : the pieces of s between the separators; a text  *)
(* with n separators yields n+1 pieces (possibly empty ones).              *)
(***************************************************************************)
HasSep(s) == \E i \in 1..Len(s) : s[i] = "="

FirstSep(s) == CHOOSE i \in 1..Len(s) : s[i] = "=" /\ \A j \in 1..(i - 1) : s[j] # "="

RECURSIVE Split(_)
Split(s) ==
    IF ~HasSep(s) THEN <<s>>
    ELSE <<SubSeq(s, 1, FirstSep(s) - 1)>> \o Split(SubSeq(s, FirstSep(s) + 1, Len(s)))

(***************************************************************************)
(* startTestRunner12, lines 114-134: the baseline map, then one map        *)
(* assignment per caller entry, in slice order.  entry[1] is an index      *)
(* expression: it panics when Split returned a single piece.               *)
(***************************************************************************)
XCTestBundlePath == <<"XCTestBundlePath">>

XCTestConfigurationFilePath == <<"XCTestConfigurationFilePath">>

XCTestSessionIdentifier == <<"XCTestSessionIdentifier">>

\* variant of BaselineEnv that puts a freshly generated identifier into the environment
BaselineEnv_FreshId(testBundlePath, xctestConfigPath, sessionIdentifier) ==
    ( <<"CA_ASSERT_MAIN_THREAD_TRANSACTIONS">> :> <<"0">> ) @@
    ( <<"CA_DEBUG_TRANSACTIONS">>              :> <<"0">> ) @@
    ( <<"DYLD_INSERT_LIBRARIES">>              :> <<"/Developer/usr/lib/libMainThreadChecker.dylib">> ) @@
    ( <<"MTC_CRASH_ON_REPORT">>                :> <<"1">> ) @@
    ( <<"NSUnbufferedIO">>                     :> <<"YES">> ) @@
    ( <<"OS_ACTIVITY_DT_MODE">>                :> <<"YES">> ) @@
    ( <<"SQLITE_ENABLE_THREAD_ASSERTIONS">>    :> <<"1">> ) @@
    ( XCTestBundlePath                         :> testBundlePath ) @@
    ( XCTestConfigurationFilePath              :> xctestConfigPath ) @@
    ( XCTestSessionIdentifier                  :> <<"fresh">> )

BaselineEnv(testBundlePath, xctestConfigPath, sessionIdentifier) ==
    ( <<"CA_ASSERT_MAIN_THREAD_TRANSACTIONS">> :> <<"0">> ) @@
    ( <<"CA_DEBUG_TRANSACTIONS">>              :> <<"0">> ) @@
    ( <<"DYLD_INSERT_LIBRARIES">>              :> <<"/Developer/usr/lib/libMainThreadChecker.dylib">> ) @@
    ( <<"MTC_CRASH_ON_REPORT">>                :> <<"1">> ) @@
    ( <<"NSUnbufferedIO">>                     :> <<"YES">> ) @@
    ( <<"OS_ACTIVITY_DT_MODE">>                :> <<"YES">> ) @@
    ( <<"SQLITE_ENABLE_THREAD_ASSERTIONS">>    :> <<"1">> ) @@
    ( XCTestBundlePath                         :> testBundlePath ) @@
    ( XCTestConfigurationFilePath              :> xctestConfigPath ) @@
    ( XCTestSessionIdentifier                  :> sessionIdentifier )

\* env[key] = value on a Go map
MapSet(env, key, value) ==
    [k \in (DOMAIN env) \cup {key} |-> IF k = key THEN value ELSE env[k]]

Panicked == [panicked |-> TRUE, env |-> <<>>]

RECURSIVE AddExtraEnv(_, _)
AddExtraEnv(env, wdaenv) ==
    IF wdaenv = <<>> THEN [panicked |-> FALSE, env |-> env]
    ELSE LET entry == Split(Head(wdaenv))
         IN  IF Len(entry) < 2 THEN Panicked
             ELSE AddExtraEnv(MapSet(env, entry[1], entry[2]), Tail(wdaenv))

BuildEnv(testBundlePath, xctestConfigPath, sessionIdentifier, wdaenv) ==
    AddExtraEnv(BaselineEnv(testBundlePath, xctestConfigPath, sessionIdentifier), wdaenv)

\* uuid.UUID.String(): the textual form of the session id
UuidString(id) == <<id>>


(***************************************************************************)
(* State of one run.                                                       *)
(***************************************************************************)
VARIABLES
    pc,             \* position of the orchestrator in RunXUITestWithBundleIdsXcode12Ctx
    ret,            \* "none" while running, then "nil", "err" or "panic"
    ctx,            \* "nil": the caller passed ctx == nil; "ctx": a context
    wdaenv,         \* the caller's env []string
    cancelled,      \* ctx.Done() is closed
    cancelPc,       \* when ctx was cancelled: "never", "sleep" (right after the launch), "other"
    finished,       \* the peer delivered its "session finished" signal
    opened,         \* resources successfully opened
    closeCount,     \* Close() calls per resource
    defers,         \* deferred Close calls, in registration order
    issued,         \* operations invoked so far, in order
    outcome,        \* result of each operation ("none" before it returned)
    testSessionId,  \* UUID generated by setupXcuiTest
    sessionArg,     \* identifier handed to initiateSessionWithIdentifierAndCaps
    pid,            \* pid returned by startTestRunner12 (0 before)
    authPid,        \* pid handed to authorizeTestSessionWithProcessID
    killArgs,       \* pids handed to KillProcess, in order
    startEnv,       \* env handed to StartProcess (<<>> before)
    authPeer,       \* "answers": the peer replies to the authorize invocation; "silent": it never does
    caps,           \* what the peer returned from initiateControlSessionWithCapabilities
    via,            \* connection each DTX invocation was sent on ("none" before)
    killedOnClosed  \* KillProcess was called on a closed process-control connection

(***************************************************************************)
(* State of the REST handlers EnableDeviceCondition and                    *)
(* DisableDeviceCondition (agent/restapi/api).                             *)
(***************************************************************************)
VARIABLES
    deviceConditionsMap,    \* udid -> deviceCondition, the package-level map
    deviceConditionsMutex,  \* 0: unlocked, otherwise the request holding it
    req,                    \* the HTTP requests being served, one per handler goroutine
    nextControl,            \* identity of the next *DeviceStateControl that is constructed
    netEnabled,             \* per device: successful Enable calls minus successful Disable calls
    lastEnable,             \* per device: instance and type of the last successful Enable call
    lastDisable,            \* the last Disable call issued to a device
    arrivals                \* requests accepted so far

runVars == <<pc, ret, ctx, wdaenv, cancelled, cancelPc, finished, opened, closeCount,
             defers, issued, outcome, testSessionId, sessionArg, pid, authPid,
             killArgs, startEnv, authPeer, caps, via, killedOnClosed>>

condVars == <<deviceConditionsMap, deviceConditionsMutex, req, nextControl, netEnabled,
              lastEnable, lastDisable, arrivals>>

vars == <<runVars, condVars>>

Resources == {"conn", "conn2", "pControl"}

Ops == {"NewUsbmuxdConnection", "setupXcuiTest", "NewUsbmuxdConnection2",
        "initiateControlSession", "initiateSession", "NewProcessControl",
        "StartProcess", "Sleep", "authorize", "startPlan", "KillProcess"}

\* protocol version handed to startExecutingTestPlanWithProtocolVersion
ProtocolVersion == 36

\* the invocations that travel over a DTX connection
DtxOps == {"initiateControlSession", "initiateSession", "authorize", "startPlan"}

\* values the peer may return from the control-session negotiation
PeerTokens == SessionIds

Count(op) == Cardinality({i \in 1..Len(issued) : issued[i] = op})

CondIdle ==
    /\ deviceConditionsMap = <<>>
    /\ deviceConditionsMutex = 0
    /\ req = <<>>
    /\ nextControl = 1
    /\ netEnabled = <<>>
    /\ lastEnable = <<>>
    /\ lastDisable = <<>>
    /\ arrivals = 0

RunInit ==
    /\ pc = "start"
    /\ ret = "none"
    /\ ctx \in {"nil", "ctx"}
    /\ wdaenv \in EnvInputs
    /\ cancelled = FALSE
    /\ cancelPc = "never"
    /\ finished = FALSE
    /\ opened = {}
    /\ closeCount = [r \in Resources |-> 0]
    /\ defers = <<>>
    /\ issued = <<>>
    /\ outcome = [o \in Ops |-> "none"]
    /\ testSessionId = "none"
    /\ sessionArg = "none"
    /\ pid = 0
    /\ authPid = 0
    /\ killArgs = <<>>
    /\ startEnv = <<>>
    /\ authPeer \in {"answers", "silent"}
    /\ caps = "none"
    /\ via = [o \in DtxOps |-> "none"]
    /\ killedOnClosed = FALSE

Init ==
    /\ RunInit
    /\ CondIdle

(***************************************************************************)
(* Leaving the function: the deferred Close calls run (last registered     *)
(* first), on a return as well as on a panic.                              *)
(***************************************************************************)
RECURSIVE RunDefers(_, _)
RunDefers(cc, ds) ==
    IF ds = <<>> THEN cc
    ELSE LET r == ds[Len(ds)]
         IN  RunDefers([cc EXCEPT ![r] = @ + 1], SubSeq(ds, 1, Len(ds) - 1))

Return(r) ==
    /\ ret' = r
    /\ pc' = "done"
    /\ closeCount' = RunDefers(closeCount, defers)
    /\ defers' = <<>>

Goto(next) ==
    /\ pc' = next
    /\ UNCHANGED <<ret, closeCount, defers>>

Defer(r, next) ==
    /\ pc' = next
    /\ defers' = Append(defers, r)
    /\ UNCHANGED <<ret, closeCount>>

Invoke(op, res) ==
    /\ issued' = Append(issued, op)
    /\ outcome' = [outcome EXCEPT ![op] = res]

\* the proxy (ideDaemonProxy on conn, ideDaemonProxy2 on conn2) an invocation goes through
On(c, op) == via' = [via EXCEPT ![op] = c]

\* what authorizeTestSessionWithProcessID can hand back: the peer's answer, or
\* nothing from the peer at all
AuthorizeResults(peer) == IF peer = "silent" THEN {"noreply"} ELSE {"ok", "false", "err"}

\* variant of InvokeReturns that waits for the peer's reply without a deadline
InvokeReturns_AwaitsReply(res) == res # "noreply"

\* the authorize invocation is issued without awaiting the peer: the call comes
\* back whether or not a reply ever arrives
InvokeReturns(res) == TRUE

\* lines 19-22
OpenConn ==
    /\ pc = "start"
    /\ \E ok \in BOOLEAN :
         /\ Invoke("NewUsbmuxdConnection", IF ok THEN "ok" ELSE "err")
         /\ opened' = IF ok THEN opened \cup {"conn"} ELSE opened
         /\ IF ok THEN Goto("setup") ELSE Return("err")
    /\ UNCHANGED <<ctx, wdaenv, cancelled, cancelPc, finished, testSessionId,
                   sessionArg, pid, authPid, killArgs, startEnv>>
    /\ UNCHANGED <<authPeer, caps, via, killedOnClosed>>
    /\ UNCHANGED condVars

\* lines 24-29: the deferred conn.Close is registered only after setupXcuiTest succeeded
SetupXcuiTest ==
    /\ pc = "setup"
    /\ \E ok \in BOOLEAN, id \in SessionIds :
         /\ Invoke("setupXcuiTest", IF ok THEN "ok" ELSE "err")
         /\ testSessionId' = IF ok THEN id ELSE testSessionId
         /\ IF ok THEN Defer("conn", "openConn2") ELSE Return("err")
    /\ UNCHANGED <<ctx, wdaenv, cancelled, cancelPc, finished, opened,
                   sessionArg, pid, authPid, killArgs, startEnv>>
    /\ UNCHANGED <<authPeer, caps, via, killedOnClosed>>
    /\ UNCHANGED condVars

\* lines 31-38
OpenConn2 ==
    /\ pc = "openConn2"
    /\ \E ok \in BOOLEAN :
         /\ Invoke("NewUsbmuxdConnection2", IF ok THEN "ok" ELSE "err")
         /\ opened' = IF ok THEN opened \cup {"conn2"} ELSE opened
         /\ IF ok THEN Defer("conn2", "initControl") ELSE Return("err")
    /\ UNCHANGED <<ctx, wdaenv, cancelled, cancelPc, finished, testSessionId,
                   sessionArg, pid, authPid, killArgs, startEnv>>
    /\ UNCHANGED <<authPeer, caps, via, killedOnClosed>>
    /\ UNCHANGED condVars

\* lines 39-48: ideDaemonProxy (conn): initiateControlSessionWithCapabilities
InitiateControlSession ==
    /\ pc = "initControl"
    /\ \E ok \in BOOLEAN :
         /\ Invoke("initiateControlSession", IF ok THEN "ok" ELSE "err")
         /\ On("conn", "initiateControlSession")
         /\ IF ok THEN caps' \in PeerTokens ELSE caps' = caps
         /\ IF ok THEN Goto("initSession") ELSE Return("err")
    /\ UNCHANGED <<ctx, wdaenv, cancelled, cancelPc, finished, opened, testSessionId,
                   sessionArg, pid, authPid, killArgs, startEnv>>
    /\ UNCHANGED <<authPeer, killedOnClosed>>
    /\ UNCHANGED condVars

\* variant of InitiateSession that names the session after the negotiation's answer
InitiateSession_UsesCaps ==
    /\ pc = "initSession"
    /\ \E ok \in BOOLEAN :
         /\ Invoke("initiateSession", IF ok THEN "ok" ELSE "err")
         /\ On("conn2", "initiateSession")
         /\ sessionArg' = caps
         /\ IF ok THEN Goto("newPControl") ELSE Return("err")
    /\ UNCHANGED <<ctx, wdaenv, cancelled, cancelPc, finished, opened, testSessionId,
                   pid, authPid, killArgs, startEnv>>
    /\ UNCHANGED <<authPeer, caps, killedOnClosed>>
    /\ UNCHANGED condVars

\* variant of InitiateSession that logs the error and carries on
InitiateSession_IgnoreError ==
    /\ pc = "initSession"
    /\ \E ok \in BOOLEAN :
         /\ Invoke("initiateSession", IF ok THEN "ok" ELSE "err")
         /\ On("conn2", "initiateSession")
         /\ sessionArg' = testSessionId
         /\ Goto("newPControl")
    /\ UNCHANGED <<ctx, wdaenv, cancelled, cancelPc, finished, opened, testSessionId,
                   pid, authPid, killArgs, startEnv>>
    /\ UNCHANGED <<authPeer, caps, killedOnClosed>>
    /\ UNCHANGED condVars

\* lines 50-54: ideDaemonProxy2 (conn2): initiateSessionWithIdentifierAndCaps(testSessionId, localCaps)
InitiateSession ==
    /\ pc = "initSession"
    /\ \E ok \in BOOLEAN :
         /\ Invoke("initiateSession", IF ok THEN "ok" ELSE "err")
         /\ On("conn2", "initiateSession")
         /\ sessionArg' = testSessionId
         /\ IF ok THEN Goto("newPControl") ELSE Return("err")
    /\ UNCHANGED <<ctx, wdaenv, cancelled, cancelPc, finished, opened, testSessionId,
                   pid, authPid, killArgs, startEnv>>
    /\ UNCHANGED <<authPeer, caps, killedOnClosed>>
    /\ UNCHANGED condVars

\* lines 55-59
NewProcessControl ==
    /\ pc = "newPControl"
    /\ \E ok \in BOOLEAN :
         /\ Invoke("NewProcessControl", IF ok THEN "ok" ELSE "err")
         /\ opened' = IF ok THEN opened \cup {"pControl"} ELSE opened
         /\ IF ok THEN Defer("pControl", "startRunner") ELSE Return("err")
    /\ UNCHANGED <<ctx, wdaenv, cancelled, cancelPc, finished, testSessionId,
                   sessionArg, pid, authPid, killArgs, startEnv>>
    /\ UNCHANGED <<authPeer, caps, via, killedOnClosed>>
    /\ UNCHANGED condVars

\* lines 61-65 with startTestRunner12 (105-142): the environment is built, then
\* StartProcess is called with it; a panic in the entry loop unwinds the caller
StartTestRunner12 ==
    /\ pc = "startRunner"
    /\ LET built == BuildEnv(XCTestBundlePath, XCTestConfigurationFilePath,
                             UuidString(testSessionId), wdaenv)
       IN  IF built.panicked
           THEN /\ Return("panic")
                /\ UNCHANGED <<issued, outcome, pid, startEnv>>
           ELSE \E ok \in BOOLEAN, p \in Pids :
                  /\ Invoke("StartProcess", IF ok THEN "ok" ELSE "err")
                  /\ startEnv' = built.env
                  /\ pid' = IF ok THEN p ELSE 0
                  /\ IF ok THEN Goto("sleep") ELSE Return("err")
    /\ UNCHANGED <<ctx, wdaenv, cancelled, cancelPc, finished, opened, testSessionId,
                   sessionArg, authPid, killArgs>>
    /\ UNCHANGED <<authPeer, caps, via, killedOnClosed>>
    /\ UNCHANGED condVars

\* lines 67-70: the dispatcher is registered for channel requests, then time.Sleep(time.Second)
Sleep ==
    /\ pc = "sleep"
    /\ Invoke("Sleep", "ok")
    /\ Goto("authorize")
    /\ UNCHANGED <<ctx, wdaenv, cancelled, cancelPc, finished, opened, testSessionId,
                   sessionArg, pid, authPid, killArgs, startEnv>>
    /\ UNCHANGED <<authPeer, caps, via, killedOnClosed>>
    /\ UNCHANGED condVars

\* variant of Authorize that treats an authorization error as fatal
Authorize_Fatal ==
    /\ pc = "authorize"
    /\ \E res \in AuthorizeResults(authPeer) :
         /\ InvokeReturns(res)
         /\ Invoke("authorize", res)
         /\ On("conn", "authorize")
         /\ authPid' = pid
         /\ IF res = "err" THEN Return("err") ELSE Goto("startPlan")
    /\ UNCHANGED <<ctx, wdaenv, cancelled, cancelPc, finished, opened, testSessionId,
                   sessionArg, pid, killArgs, startEnv>>
    /\ UNCHANGED <<authPeer, caps, killedOnClosed>>
    /\ UNCHANGED condVars

\* lines 72-73: success, _ := authorizeTestSessionWithProcessID(pid); the error is discarded
Authorize ==
    /\ pc = "authorize"
    /\ \E res \in AuthorizeResults(authPeer) :
         /\ InvokeReturns(res)
         /\ Invoke("authorize", res)
         /\ On("conn", "authorize")
         /\ authPid' = pid
         /\ Goto("startPlan")
    /\ UNCHANGED <<ctx, wdaenv, cancelled, cancelPc, finished, opened, testSessionId,
                   sessionArg, pid, killArgs, startEnv>>
    /\ UNCHANGED <<authPeer, caps, killedOnClosed>>
    /\ UNCHANGED condVars

\* variant of StartExecutingTestPlan that logs the error and waits all the same
StartExecutingTestPlan_NoCheck ==
    /\ pc = "startPlan"
    /\ \E ok \in BOOLEAN :
         /\ Invoke("startPlan", IF ok THEN "ok" ELSE "err")
         /\ On("conn2", "startPlan")
         /\ Goto(IF ctx # "nil" THEN "select" ELSE "recvClose")
    /\ UNCHANGED <<ctx, wdaenv, cancelled, cancelPc, finished, opened, testSessionId,
                   sessionArg, pid, authPid, killArgs, startEnv>>
    /\ UNCHANGED <<authPeer, caps, killedOnClosed>>
    /\ UNCHANGED condVars

\* lines 74-80: startExecutingTestPlanWithProtocolVersion(ideInterfaceChannel, 36),
\* then the branch on ctx != nil
StartExecutingTestPlan ==
    /\ pc = "startPlan"
    /\ \E ok \in BOOLEAN :
         /\ Invoke("startPlan", IF ok THEN "ok" ELSE "err")
         /\ On("conn2", "startPlan")
         /\ IF ok THEN Goto(IF ctx # "nil" THEN "select" ELSE "recvClose")
                  ELSE Return("err")
    /\ UNCHANGED <<ctx, wdaenv, cancelled, cancelPc, finished, opened, testSessionId,
                   sessionArg, pid, authPid, killArgs, startEnv>>
    /\ UNCHANGED <<authPeer, caps, killedOnClosed>>
    /\ UNCHANGED condVars

\* variant of CtxDone that closes the process-control connection before it kills
CtxDone_CloseFirst ==
    /\ pc = "select"
    /\ cancelled
    /\ \E ok \in BOOLEAN :
         /\ Invoke("KillProcess", IF ok THEN "ok" ELSE "err")
         /\ killArgs' = Append(killArgs, pid)
         /\ killedOnClosed' = TRUE
         /\ ret' = (IF ok THEN "nil" ELSE "err")
         /\ pc' = "done"
         /\ closeCount' = RunDefers([closeCount EXCEPT !["pControl"] = @ + 1], defers)
         /\ defers' = <<>>
    /\ UNCHANGED <<ctx, wdaenv, cancelled, cancelPc, finished, opened, testSessionId,
                   sessionArg, pid, authPid, startEnv>>
    /\ UNCHANGED <<authPeer, caps, via>>
    /\ UNCHANGED condVars

\* variant of CtxDone without the return of line 90: control falls through to line 93
CtxDone_FallThrough ==
    /\ pc = "select"
    /\ cancelled
    /\ \E ok \in BOOLEAN :
         /\ Invoke("KillProcess", IF ok THEN "ok" ELSE "err")
         /\ killArgs' = Append(killArgs, pid)
         /\ killedOnClosed' = (killedOnClosed \/ closeCount["pControl"] > 0)
         /\ IF ok THEN Goto("recvClose") ELSE Return("err")
    /\ UNCHANGED <<ctx, wdaenv, cancelled, cancelPc, finished, opened, testSessionId,
                   sessionArg, pid, authPid, startEnv>>
    /\ UNCHANGED <<authPeer, caps, via>>
    /\ UNCHANGED condVars

\* variant of CtxDone that exits the process on a kill error (log.Fatal): no deferred call runs
CtxDone_FatalOnKillError ==
    /\ pc = "select"
    /\ cancelled
    /\ \E ok \in BOOLEAN :
         /\ Invoke("KillProcess", IF ok THEN "ok" ELSE "err")
         /\ killArgs' = Append(killArgs, pid)
         /\ killedOnClosed' = (killedOnClosed \/ closeCount["pControl"] > 0)
         /\ IF ok THEN Return("nil")
                  ELSE /\ ret' = "err"
                       /\ pc' = "done"
                       /\ UNCHANGED <<closeCount, defers>>
    /\ UNCHANGED <<ctx, wdaenv, cancelled, cancelPc, finished, opened, testSessionId,
                   sessionArg, pid, authPid, startEnv>>
    /\ UNCHANGED <<authPeer, caps, via>>
    /\ UNCHANGED condVars

\* lines 81-90: the select has the single case <-ctx.Done()
CtxDone ==
    /\ pc = "select"
    /\ cancelled
    /\ \E ok \in BOOLEAN :
         /\ Invoke("KillProcess", IF ok THEN "ok" ELSE "err")
         /\ killArgs' = Append(killArgs, pid)
         /\ killedOnClosed' = (killedOnClosed \/ closeCount["pControl"] > 0)
         /\ Return(IF ok THEN "nil" ELSE "err")
    /\ UNCHANGED <<ctx, wdaenv, cancelled, cancelPc, finished, opened, testSessionId,
                   sessionArg, pid, authPid, startEnv>>
    /\ UNCHANGED <<authPeer, caps, via>>
    /\ UNCHANGED condVars

(***************************************************************************)
(* Line 93, <-proxyDispatcher.closeChannel: proxyDispatcher is the local   *)
(* literal ProxyDispatcher{id: "emty"} of line 67, so closeChannel is the  *)
(* nil channel and the receive never completes.  No step leaves            *)
(* pc = "recvClose"; lines 94-102 are not reachable.                       *)
(***************************************************************************)
BlockedOnCloseChannel == pc = "recvClose"

(***************************************************************************)
(* Environment: the caller cancels the context; the peer reports that the  *)
(* session finished on the channel requested at line 68.                   *)
(***************************************************************************)
Cancel ==
    /\ ctx = "ctx"
    /\ ~cancelled
    /\ pc # "done"
    /\ cancelled' = TRUE
    /\ cancelPc' = (IF pc = "sleep" THEN "sleep" ELSE "other")
    /\ UNCHANGED <<pc, ret, ctx, wdaenv, finished, opened, closeCount, defers, issued,
                   outcome, testSessionId, sessionArg, pid, authPid, killArgs, startEnv>>
    /\ UNCHANGED <<authPeer, caps, via, killedOnClosed>>
    /\ UNCHANGED condVars

RemoteFinished ==
    /\ pc \in {"select", "recvClose"}
    /\ ~finished
    /\ finished' = TRUE
    /\ UNCHANGED <<pc, ret, ctx, wdaenv, cancelled, cancelPc, opened, closeCount, defers,
                   issued, outcome, testSessionId, sessionArg, pid, authPid, killArgs,
                   startEnv>>
    /\ UNCHANGED <<authPeer, caps, via, killedOnClosed>>
    /\ UNCHANGED condVars

Orchestrator ==
    \/ OpenConn
    \/ SetupXcuiTest
    \/ OpenConn2
    \/ InitiateControlSession
    \/ InitiateSession
    \/ NewProcessControl
    \/ StartTestRunner12
    \/ Sleep
    \/ Authorize
    \/ StartExecutingTestPlan
    \/ CtxDone

Next ==
    \/ Orchestrator
    \/ Cancel
    \/ RemoteFinished

Spec == Init /\ [][Next]_vars

\* the orchestrator goroutine keeps running whenever its next statement can execute
FairSpec == Spec /\ WF_vars(Orchestrator)

TypeOK ==
    /\ pc \in {"start", "setup", "openConn2", "initControl", "initSession", "newPControl",
               "startRunner", "sleep", "authorize", "startPlan", "select", "recvClose", "done"}
    /\ ret \in {"none", "nil", "err", "panic"}
    /\ opened \subseteq Resources
    /\ \A r \in Resources : closeCount[r] \in 0..1
    /\ pid \in {0} \cup Pids


(***************************************************************************)
(* EnableDeviceCondition / DisableDeviceCondition.  Every HTTP request is  *)
(* served by its own goroutine; the handlers share deviceConditionsMap     *)
(* under deviceConditionsMutex.  A *DeviceStateControl is identified by    *)
(* the order of its construction.                                          *)
(***************************************************************************)
\* handler goroutines that can be active at the same time are 1..MaxReq
MaxReq == 2

\* requests accepted in one behaviour
MaxArrivals == 3

Reqs == 1..MaxReq

Udids == {"d1", "d2"}

\* values of the profileTypeID and profileID query parameters ("" when missing)
ProfileTypeIDs == {"", "SlowNetworkCondition", "ThermalCondition"}

ProfileIDs == {"", "SlowNetwork100PctLoss"}

NoCall == [control |-> 0, ptype |-> ""]

IdleReq == [kind |-> "none", udid |-> "none", pc |-> "idle", control |-> 0,
            ptype |-> "", profile |-> "", called |-> FALSE, resp |-> "none"]

\* delete(m, k) on a Go map
MapDelete(m, k) == [x \in (DOMAIN m) \ {k} |-> m[x]]

CondInit ==
    /\ RunInit
    /\ ctx = "nil"
    /\ wdaenv = <<>>
    /\ authPeer = "answers"
    /\ deviceConditionsMap = <<>>
    /\ deviceConditionsMutex = 0
    /\ req = [r \in Reqs |-> IdleReq]
    /\ nextControl = 1
    /\ netEnabled = [u \in Udids |-> 0]
    /\ lastEnable = [u \in Udids |-> NoCall]
    /\ lastDisable = [udid |-> "none", control |-> 0, ptype |-> "", expected |-> NoCall,
                      hadEntry |-> FALSE]
    /\ arrivals = 0

\* the handler writes its response and returns: the deferred Unlock runs
Respond(r, resp) ==
    /\ req' = [req EXCEPT ![r].pc = "idle", ![r].resp = resp]
    /\ deviceConditionsMutex' = 0

\* lines 204-206 and 272-274: gin starts a handler for a request on a device
Arrive(r) ==
    /\ req[r].pc = "idle"
    /\ arrivals < MaxArrivals
    /\ \E k \in {"enable", "disable"}, u \in Udids :
         req' = [req EXCEPT ![r] = [IdleReq EXCEPT !.kind = k, !.udid = u, !.pc = "lock"]]
    /\ arrivals' = arrivals + 1
    /\ UNCHANGED <<deviceConditionsMap, deviceConditionsMutex, nextControl, netEnabled,
                   lastEnable, lastDisable>>
    /\ UNCHANGED runVars

\* variant of EnableLock that enters the handler body without taking the mutex
EnableLock_NoMutex(r) ==
    /\ req[r].kind = "enable"
    /\ req[r].pc = "lock"
    /\ req' = [req EXCEPT ![r].pc = "check"]
    /\ UNCHANGED <<deviceConditionsMap, deviceConditionsMutex, nextControl, netEnabled,
                   lastEnable, lastDisable, arrivals>>
    /\ UNCHANGED runVars

\* lines 208-209: deviceConditionsMutex.Lock()
EnableLock(r) ==
    /\ req[r].kind = "enable"
    /\ req[r].pc = "lock"
    /\ deviceConditionsMutex = 0
    /\ deviceConditionsMutex' = r
    /\ req' = [req EXCEPT ![r].pc = "check"]
    /\ UNCHANGED <<deviceConditionsMap, nextControl, netEnabled, lastEnable, lastDisable,
                   arrivals>>
    /\ UNCHANGED runVars

\* lines 211-227: the entry check, then the two query parameters
EnableCheck(r) ==
    /\ req[r].kind = "enable"
    /\ req[r].pc = "check"
    /\ IF req[r].udid \in DOMAIN deviceConditionsMap
       THEN Respond(r, "active")
       ELSE \E t \in ProfileTypeIDs, p \in ProfileIDs :
              IF t = "" THEN Respond(r, "missingProfileTypeID")
              ELSE IF p = "" THEN Respond(r, "missingProfileID")
              ELSE /\ req' = [req EXCEPT ![r].pc = "create", ![r].ptype = t,
                                         ![r].profile = p]
                   /\ UNCHANGED deviceConditionsMutex
    /\ UNCHANGED <<deviceConditionsMap, nextControl, netEnabled, lastEnable, lastDisable,
                   arrivals>>
    /\ UNCHANGED runVars

\* lines 229-245: NewDeviceStateControl, control.List, VerifyProfileAndType
EnableCreate(r) ==
    /\ req[r].kind = "enable"
    /\ req[r].pc = "create"
    /\ \E res \in {"ok", "newFailed", "listFailed", "verifyFailed"} :
         /\ nextControl' = IF res = "newFailed" THEN nextControl ELSE nextControl + 1
         /\ IF res = "ok"
            THEN /\ req' = [req EXCEPT ![r].pc = "enable", ![r].control = nextControl]
                 /\ UNCHANGED deviceConditionsMutex
            ELSE Respond(r, res)
    /\ UNCHANGED <<deviceConditionsMap, netEnabled, lastEnable, lastDisable, arrivals>>
    /\ UNCHANGED runVars

\* lines 247-251: control.Enable(profileType, profile)
EnableCall(r) ==
    /\ req[r].kind = "enable"
    /\ req[r].pc = "enable"
    /\ \E ok \in BOOLEAN :
         IF ok
         THEN /\ req' = [req EXCEPT ![r].pc = "store", ![r].called = TRUE]
              /\ netEnabled' = [netEnabled EXCEPT ![req[r].udid] = @ + 1]
              /\ lastEnable' = [lastEnable EXCEPT ![req[r].udid] =
                                   [control |-> req[r].control, ptype |-> req[r].ptype]]
              /\ UNCHANGED deviceConditionsMutex
         ELSE /\ req' = [req EXCEPT ![r].pc = "idle", ![r].resp = "enableFailed",
                                    ![r].called = TRUE]
              /\ deviceConditionsMutex' = 0
              /\ UNCHANGED <<netEnabled, lastEnable>>
    /\ UNCHANGED <<deviceConditionsMap, nextControl, lastDisable, arrivals>>
    /\ UNCHANGED runVars

\* lines 257-261: the condition is recorded with the instance that enabled it
EnableStore(r) ==
    /\ req[r].kind = "enable"
    /\ req[r].pc = "store"
    /\ deviceConditionsMap' =
          MapSet(deviceConditionsMap, req[r].udid,
                 [ProfileType |-> req[r].ptype, Profile |-> req[r].profile,
                  StateControl |-> req[r].control])
    /\ Respond(r, "enabled")
    /\ UNCHANGED <<nextControl, netEnabled, lastEnable, lastDisable, arrivals>>
    /\ UNCHANGED runVars

\* lines 276-277: deviceConditionsMutex.Lock()
DisableLock(r) ==
    /\ req[r].kind = "disable"
    /\ req[r].pc = "lock"
    /\ deviceConditionsMutex = 0
    /\ deviceConditionsMutex' = r
    /\ req' = [req EXCEPT ![r].pc = "check"]
    /\ UNCHANGED <<deviceConditionsMap, nextControl, netEnabled, lastEnable, lastDisable,
                   arrivals>>
    /\ UNCHANGED runVars

\* lines 279-283: conditionedDevice, exists := deviceConditionsMap[udid]
DisableLookup(r) ==
    /\ req[r].kind = "disable"
    /\ req[r].pc = "check"
    /\ IF req[r].udid \notin DOMAIN deviceConditionsMap
       THEN Respond(r, "noActive")
       ELSE /\ req' = [req EXCEPT
                          ![r].pc = "disable",
                          ![r].control = deviceConditionsMap[req[r].udid].StateControl,
                          ![r].ptype = deviceConditionsMap[req[r].udid].ProfileType,
                          ![r].profile = deviceConditionsMap[req[r].udid].Profile]
            /\ UNCHANGED deviceConditionsMutex
    /\ UNCHANGED <<deviceConditionsMap, nextControl, netEnabled, lastEnable, lastDisable,
                   arrivals>>
    /\ UNCHANGED runVars

\* variant of DisableCall that builds a new DeviceStateControl for the Disable call
DisableCall_NewInstance(r) ==
    /\ req[r].kind = "disable"
    /\ req[r].pc = "disable"
    /\ lastDisable' = [udid |-> req[r].udid, control |-> nextControl,
                       ptype |-> req[r].ptype, expected |-> lastEnable[req[r].udid],
                       hadEntry |-> req[r].udid \in DOMAIN deviceConditionsMap]
    /\ nextControl' = nextControl + 1
    /\ \E ok \in BOOLEAN :
         IF ok
         THEN /\ req' = [req EXCEPT ![r].pc = "delete", ![r].called = TRUE]
              /\ netEnabled' = [netEnabled EXCEPT ![req[r].udid] = @ - 1]
              /\ UNCHANGED deviceConditionsMutex
         ELSE /\ req' = [req EXCEPT ![r].pc = "idle", ![r].resp = "disableFailed",
                                    ![r].called = TRUE]
              /\ deviceConditionsMutex' = 0
              /\ UNCHANGED netEnabled
    /\ UNCHANGED <<deviceConditionsMap, lastEnable, arrivals>>
    /\ UNCHANGED runVars

\* variant of DisableCall that drops the entry before it knows the outcome of Disable
DisableCall_DeleteFirst(r) ==
    /\ req[r].kind = "disable"
    /\ req[r].pc = "disable"
    /\ lastDisable' = [udid |-> req[r].udid, control |-> req[r].control,
                       ptype |-> req[r].ptype, expected |-> lastEnable[req[r].udid],
                       hadEntry |-> req[r].udid \in DOMAIN deviceConditionsMap]
    /\ deviceConditionsMap' = MapDelete(deviceConditionsMap, req[r].udid)
    /\ \E ok \in BOOLEAN :
         IF ok
         THEN /\ req' = [req EXCEPT ![r].pc = "delete", ![r].called = TRUE]
              /\ netEnabled' = [netEnabled EXCEPT ![req[r].udid] = @ - 1]
              /\ UNCHANGED deviceConditionsMutex
         ELSE /\ req' = [req EXCEPT ![r].pc = "idle", ![r].resp = "disableFailed",
                                    ![r].called = TRUE]
              /\ deviceConditionsMutex' = 0
              /\ UNCHANGED netEnabled
    /\ UNCHANGED <<nextControl, lastEnable, arrivals>>
    /\ UNCHANGED runVars

\* lines 285-290: conditionedDevice.StateControl.Disable(conditionedDevice.ProfileType)
DisableCall(r) ==
    /\ req[r].kind = "disable"
    /\ req[r].pc = "disable"
    /\ lastDisable' = [udid |-> req[r].udid, control |-> req[r].control,
                       ptype |-> req[r].ptype, expected |-> lastEnable[req[r].udid],
                       hadEntry |-> req[r].udid \in DOMAIN deviceConditionsMap]
    /\ \E ok \in BOOLEAN :
         IF ok
         THEN /\ req' = [req EXCEPT ![r].pc = "delete", ![r].called = TRUE]
              /\ netEnabled' = [netEnabled EXCEPT ![req[r].udid] = @ - 1]
              /\ UNCHANGED deviceConditionsMutex
         ELSE /\ req' = [req EXCEPT ![r].pc = "idle", ![r].resp = "disableFailed",
                                    ![r].called = TRUE]
              /\ deviceConditionsMutex' = 0
              /\ UNCHANGED netEnabled
    /\ UNCHANGED <<deviceConditionsMap, nextControl, lastEnable, arrivals>>
    /\ UNCHANGED runVars

\* lines 292-295: delete(deviceConditionsMap, udid)
DisableDelete(r) ==
    /\ req[r].kind = "disable"
    /\ req[r].pc = "delete"
    /\ deviceConditionsMap' = MapDelete(deviceConditionsMap, req[r].udid)
    /\ Respond(r, "disabled")
    /\ UNCHANGED <<nextControl, netEnabled, lastEnable, lastDisable, arrivals>>
    /\ UNCHANGED runVars

CondNext ==
    \E r \in Reqs :
        \/ Arrive(r)
        \/ EnableLock(r)
        \/ EnableCheck(r)
        \/ EnableCreate(r)
        \/ EnableCall(r)
        \/ EnableStore(r)
        \/ DisableLock(r)
        \/ DisableLookup(r)
        \/ DisableCall(r)
        \/ DisableDelete(r)

CondSpec == CondInit /\ [][CondNext]_vars

CondTypeOK ==
    /\ deviceConditionsMutex \in {0} \cup Reqs
    /\ DOMAIN deviceConditionsMap \subseteq Udids
    /\ \A r \in Reqs : req[r].pc \in {"idle", "lock", "check", "create", "enable", "store",
                                      "disable", "delete"}
    /\ arrivals \in 0..MaxArrivals

(***************************************************************************)
(* Properties                                                              *)
(***************************************************************************)
Killed(p) == \E i \in 1..Len(killArgs) : killArgs[i] = p

Later(op) ==
    CASE op = "initiateControlSession" ->
           {"initiateSession", "NewProcessControl", "StartProcess", "Sleep",
            "authorize", "startPlan", "KillProcess"}
      [] op = "initiateSession" ->
           {"NewProcessControl", "StartProcess", "Sleep", "authorize", "startPlan",
            "KillProcess"}
      [] op = "StartProcess" ->
           {"Sleep", "authorize", "startPlan", "KillProcess"}

\* C1: when the runner was launched and start-executing-test-plan failed, the
\* function returns a non-nil error and KillProcess was called with the
\* launched pid before it returned.
C1_PlanFailureKillsRunner ==
    (pc = "done" /\ outcome["StartProcess"] = "ok" /\ outcome["startPlan"] = "err")
        => (ret = "err" /\ Killed(pid))

\* C2: once the test plan was started and the peer's "session finished" signal
\* was delivered, the function returns nil unless the context gets cancelled.
C2_FinishedLeadsToNil ==
    (outcome["startPlan"] = "ok" /\ finished) ~> (ret = "nil" \/ cancelled)

\* C3: when the context is cancelled right after the runner was launched, the
\* function returns nil and KillProcess was called exactly once, with the
\* launched pid, whatever authorize and start-test-plan answered.
C3_EarlyCancelKillsOnceReturnsNil ==
    (pc = "done" /\ cancelPc = "sleep") => (ret = "nil" /\ killArgs = <<pid>>)

\* C4: a run that observed the cancellation and issued KillProcess returns nil,
\* also when KillProcess reported an error.
C4_CancelReturnsNil ==
    (pc = "done" /\ Count("KillProcess") > 0) => ret = "nil"

\* C5: every test-manager connection the run opened has been closed exactly
\* once when the function has returned, on every return path.
C5_OpenedConnectionsClosedOnce ==
    pc = "done" => \A r \in {"conn", "conn2"} \cap opened : closeCount[r] = 1

\* C6: when cancellation and the peer's finished signal are both ready while
\* the orchestrator waits, the function returns, with KillProcess invoked
\* exactly once and each connection closed exactly once.
C6_RaceOneTeardown ==
    (pc = "select" /\ cancelled /\ finished)
        ~> (/\ pc = "done"
            /\ Len(killArgs) = 1
            /\ Count("KillProcess") = 1
            /\ \A r \in {"conn", "conn2"} : closeCount[r] = 1)

C6_Witness ==
    /\ pc = "done"
    /\ cancelled
    /\ finished
    /\ killArgs = <<pid>>
    /\ closeCount["conn"] = 1
    /\ closeCount["conn2"] = 1

\* C7: a failed primary negotiation, secondary session initiation or runner
\* launch ends the run with a non-nil error at once: the failed call was issued
\* once and it is the last operation of the run.
C7_HandshakeFailureIsImmediate ==
    \A op \in {"initiateControlSession", "initiateSession", "StartProcess"} :
        outcome[op] = "err" =>
            /\ ret = "err"
            /\ pc = "done"
            /\ Count(op) = 1
            /\ issued[Len(issued)] = op
            /\ \A l \in Later(op) : Count(l) = 0

C7_Witness ==
    /\ outcome["initiateSession"] = "err"
    /\ ret = "err"
    /\ Count("initiateSession") = 1
    /\ Count("StartProcess") = 0

\* C8: whatever authorize answered, start-executing-test-plan is the next step,
\* and the value returned depends on the test-plan start and the kill only.
C8_AuthorizeNotFatal ==
    /\ \A i \in 1..Len(issued) :
          issued[i] = "authorize" =>
              IF i = Len(issued) THEN pc = "startPlan" /\ ret = "none"
                                 ELSE issued[i + 1] = "startPlan"
    /\ (pc = "done" /\ Count("authorize") = 1) =>
          /\ Count("startPlan") = 1
          /\ (ret = "err") <=> (outcome["startPlan"] = "err" \/ outcome["KillProcess"] = "err")
          /\ (ret = "nil") <=> (outcome["startPlan"] = "ok" /\ outcome["KillProcess"] = "ok")

C8_Witness ==
    /\ pc = "done"
    /\ outcome["authorize"] = "err"
    /\ outcome["startPlan"] = "ok"
    /\ ret = "nil"

\* C9: when KillProcess failed, both test-manager connections and the process
\* control connection have nevertheless been closed when the function returns.
C9_KillFailureStillCloses ==
    (pc = "done" /\ outcome["KillProcess"] = "err")
        => \A r \in Resources : closeCount[r] >= 1

C9_Witness ==
    /\ pc = "done"
    /\ outcome["KillProcess"] = "err"
    /\ ret = "err"
    /\ \A r \in Resources : closeCount[r] = 1

\* what the caller wrote: the key is the text before the first "=", the value
\* the text after it
CallerKey(e) == SubSeq(e, 1, FirstSep(e) - 1)

CallerValue(e) == SubSeq(e, FirstSep(e) + 1, Len(e))

CallerKeys == {CallerKey(wdaenv[i]) : i \in 1..Len(wdaenv)}

LatestEntry(k) ==
    wdaenv[CHOOSE i \in 1..Len(wdaenv) :
              /\ CallerKey(wdaenv[i]) = k
              /\ \A j \in (i + 1)..Len(wdaenv) : CallerKey(wdaenv[j]) # k]

Baseline == BaselineEnv(XCTestBundlePath, XCTestConfigurationFilePath, UuidString(testSessionId))

\* C10: the environment handed to StartProcess is the baseline merged with the
\* caller's KEY=VALUE entries: baseline keys the caller did not name keep the
\* baseline value, caller keys carry the caller's (latest) value.
C10_EnvIsBaselineMergedWithCaller ==
    Count("StartProcess") > 0 =>
        /\ DOMAIN startEnv = (DOMAIN Baseline) \cup CallerKeys
        /\ \A k \in (DOMAIN Baseline) \ CallerKeys : startEnv[k] = Baseline[k]
        /\ \A k \in CallerKeys : startEnv[k] = CallerValue(LatestEntry(k))


\* the order in which the function issues its operations
CanonicalOrder ==
    <<"NewUsbmuxdConnection", "setupXcuiTest", "NewUsbmuxdConnection2",
      "initiateControlSession", "initiateSession", "NewProcessControl",
      "StartProcess", "Sleep", "authorize", "startPlan", "KillProcess">>

\* C13: the steps are issued in the state-machine order, each at most once and
\* each after the preceding one returned: both connections, negotiation on the
\* primary connection, session initiation on the secondary, StartProcess, the
\* delay, authorize for the launched pid on the primary, start of the test plan
\* on the secondary; the wait starts only after the test plan was started.
C13_StepsInOrder ==
    /\ Len(issued) <= Len(CanonicalOrder)
    /\ issued = SubSeq(CanonicalOrder, 1, Len(issued))
    /\ \A i \in 1..Len(issued) : outcome[issued[i]] # "none"
    /\ \A i \in 1..(Len(issued) - 1) :
          issued[i] # "authorize" => outcome[issued[i]] = "ok"
    /\ \A o \in DtxOps :
          via[o] = IF Count(o) = 0 THEN "none"
                   ELSE IF o \in {"initiateControlSession", "authorize"} THEN "conn"
                   ELSE "conn2"
    /\ Count("initiateControlSession") > 0 => {"conn", "conn2"} \subseteq opened
    /\ Count("authorize") > 0 => (authPid = pid /\ pid \in Pids)
    /\ pc \in {"select", "recvClose"} => outcome["startPlan"] = "ok"

C13_Witness ==
    /\ pc = "select"
    /\ Len(issued) = 10
    /\ authPid = pid
    /\ via["startPlan"] = "conn2"

C15_SessionIdFromNegotiation ==
    Count("initiateSession") > 0 => sessionArg = caps

\* C15 (amended): the identifier handed to the secondary-channel session
\* initiation is the one setupXcuiTest produced, which exists before the
\* primary-channel negotiation is issued.
C15_SessionIdFromSetup ==
    /\ Count("initiateControlSession") > 0 => testSessionId \in SessionIds
    /\ Count("initiateSession") > 0 =>
          /\ sessionArg = testSessionId
          /\ via["initiateSession"] = "conn2"

C15_Witness ==
    /\ Count("initiateSession") > 0
    /\ sessionArg = testSessionId
    /\ caps \in PeerTokens
    /\ sessionArg # caps

CallerOverrides(k) == \E i \in 1..Len(wdaenv) : CallerKey(wdaenv[i]) = k

\* C16: the identifier of the secondary-channel session initiation is the
\* XCTestSessionIdentifier of the launched runner's environment, unless a caller
\* entry names that key.
C16_OneSessionIdentifier ==
    (Count("StartProcess") > 0 /\ ~CallerOverrides(XCTestSessionIdentifier))
        => startEnv[XCTestSessionIdentifier] = UuidString(sessionArg)

C16_Witness ==
    /\ Count("StartProcess") > 0
    /\ Len(wdaenv) = MaxEnv
    /\ ~CallerOverrides(XCTestSessionIdentifier)
    /\ sessionArg \in SessionIds
    /\ startEnv[XCTestSessionIdentifier] = UuidString(sessionArg)

\* C17: KillProcess is invoked at most once, only after StartProcess succeeded,
\* only with the pid StartProcess returned, and never on a closed
\* process-control connection.
C17_KillOnceWithLaunchedPid ==
    /\ Len(killArgs) <= 1
    /\ Count("KillProcess") = Len(killArgs)
    /\ ~killedOnClosed
    /\ Len(killArgs) = 1 =>
          /\ outcome["StartProcess"] = "ok"
          /\ pid \in Pids
          /\ killArgs[1] = pid
          /\ \E i \in 1..Len(issued) :
                /\ issued[i] = "StartProcess"
                /\ \E j \in (i + 1)..Len(issued) : issued[j] = "KillProcess"

C17_Witness ==
    /\ Count("KillProcess") = 1
    /\ killArgs = <<pid>>
    /\ closeCount["pControl"] = 1
    /\ ~killedOnClosed

\* C19: whatever entries the caller supplies, startTestRunner12 completes
\* normally, and every entry maps the text before its first "=" to the whole
\* text after it (entries without "=" do not abort the launch).
C19_EveryEntryIsAccepted ==
    /\ ret # "panic"
    /\ pc \in {"sleep", "authorize", "startPlan", "select", "recvClose"} =>
          \A i \in 1..Len(wdaenv) :
              /\ HasSep(wdaenv[i])
              /\ LatestEntry(CallerKey(wdaenv[i])) = wdaenv[i] =>
                    startEnv[CallerKey(wdaenv[i])] = CallerValue(wdaenv[i])


\* C11: Disable is invoked only while the table holds an entry for the device,
\* and then on the instance and with the ProfileType of the most recent
\* successful Enable for that device, never on an instance built for the purpose.
C11_DisableOnEnablingInstance ==
    lastDisable.udid # "none" =>
        /\ lastDisable.hadEntry
        /\ lastDisable.expected # NoCall
        /\ lastDisable.control = lastDisable.expected.control
        /\ lastDisable.ptype = lastDisable.expected.ptype
        /\ lastDisable.control \in 1..(nextControl - 1)

C11_Witness ==
    /\ lastDisable.udid # "none"
    /\ lastDisable.control = lastEnable[lastDisable.udid].control
    /\ lastDisable.control >= 1
    /\ nextControl > lastDisable.control + 1

InCritical(r) == req[r].pc \in {"check", "create", "enable", "store", "disable", "delete"}

\* C12: the check-and-update of the table is atomic: one request at a time is
\* between Lock and Unlock, a device never has more than one condition enabled
\* through the table, an Enable request that finds an entry calls nothing on the
\* device and leaves the table alone, and an Enable request past the entry check
\* never meets an entry recorded by a concurrent request.
C12_TableUpdateAtomic ==
    /\ [](/\ Cardinality({r \in Reqs : InCritical(r)}) <= 1
          /\ \A r \in Reqs : InCritical(r) => deviceConditionsMutex = r
          /\ \A u \in Udids : netEnabled[u] \in {0, 1}
          /\ \A u \in Udids :
                (netEnabled[u] = 1) <=>
                    \/ u \in DOMAIN deviceConditionsMap
                         /\ ~\E r \in Reqs : req[r].udid = u /\ req[r].pc = "delete"
                    \/ \E r \in Reqs : req[r].udid = u /\ req[r].pc = "store"
          /\ \A r \in Reqs :
                (req[r].kind = "enable" /\ req[r].pc \in {"create", "enable", "store"})
                    => req[r].udid \notin DOMAIN deviceConditionsMap
          /\ \A r \in Reqs : req[r].resp = "active" => ~req[r].called)
    /\ [][\A r \in Reqs :
            (req[r].resp = "none" /\ req'[r].resp = "active") =>
                /\ deviceConditionsMap' = deviceConditionsMap
                /\ netEnabled' = netEnabled
                /\ lastEnable' = lastEnable]_vars

C12_Witness ==
    \E r1, r2 \in Reqs :
        /\ r1 # r2
        /\ req[r1].kind = "enable"
        /\ req[r2].kind = "enable"
        /\ req[r1].udid = req[r2].udid
        /\ req[r1].resp = "enabled"
        /\ req[r1].pc = "idle"
        /\ req[r2].resp = "active"

Responds(r, resps) == req[r].resp = "none" /\ req'[r].resp \in resps

\* C18: the table changes only on success: a failed Enable or Disable request
\* leaves it as it was (a failed Disable keeps the entry and its instance), a
\* successful Enable adds exactly the device's entry and a successful Disable
\* removes exactly that entry, so that Enable then Disable restores the table.
C18_TableChangesOnlyOnSuccess ==
    [][/\ \A r \in Reqs :
            Responds(r, {"active", "missingProfileTypeID", "missingProfileID", "newFailed",
                         "listFailed", "verifyFailed", "enableFailed", "noActive",
                         "disableFailed"})
                => deviceConditionsMap' = deviceConditionsMap
       /\ \A r \in Reqs :
            Responds(r, {"enabled"}) =>
                /\ req[r].udid \notin DOMAIN deviceConditionsMap
                /\ DOMAIN deviceConditionsMap' = (DOMAIN deviceConditionsMap) \cup {req[r].udid}
                /\ \A u \in DOMAIN deviceConditionsMap :
                      deviceConditionsMap'[u] = deviceConditionsMap[u]
       /\ \A r \in Reqs :
            Responds(r, {"disabled"}) =>
                /\ req[r].udid \in DOMAIN deviceConditionsMap
                /\ DOMAIN deviceConditionsMap' = (DOMAIN deviceConditionsMap) \ {req[r].udid}
                /\ \A u \in DOMAIN deviceConditionsMap' :
                      deviceConditionsMap'[u] = deviceConditionsMap[u]
       /\ deviceConditionsMap' # deviceConditionsMap =>
            \E r \in Reqs : Responds(r, {"enabled", "disabled"})]_vars

C18_Witness ==
    \E r \in Reqs :
        /\ req[r].resp = "disableFailed"
        /\ req[r].udid \in DOMAIN deviceConditionsMap
        /\ deviceConditionsMap[req[r].udid].StateControl = req[r].control
        /\ lastDisable.control = req[r].control

=============================================================================
